---- MODULE Spec2Model ----
(***************************************************************************)
(* A model of the progressive ray tracer: the driver loop of main.py, the  *)
(* accumulation kernel Scene.render, the traversal Scene.intersect_scene,  *)
(* the shading Scene.compute_shading and the sphere intersector of         *)
(* geometry.py.                                                            *)
(*                                                                         *)
(* Floating-point values are modelled as extended rationals <<n, d>> in    *)
(* lowest terms with d >= 0: d = 0 encodes +inf (<<1,0>>), -inf (<<-1,0>>) *)
(* and NaN (<<0,0>>), so that a division by zero and float('inf') behave   *)
(* as they do in IEEE arithmetic. Arithmetic on finite values is exact;    *)
(* a square root is exact on a perfect square and is otherwise rounded     *)
(* down to a multiple of 1/SqrtGrid.                                       *)
(*                                                                         *)
(* A value the code computes once and uses several times is passed as an   *)
(* operator argument, so that it is evaluated once here too.               *)
(***************************************************************************)
EXTENDS Integers, Sequences, FiniteSets, TLC

(* ------------------------------------------------------------------ *)
(* Numbers                                                             *)
(* ------------------------------------------------------------------ *)

\* resolution of an inexact square root
SqrtGrid == 4

Abs(n) == IF n < 0 THEN -n ELSE n

Sgn(n) == IF n < 0 THEN -1 ELSE IF n > 0 THEN 1 ELSE 0

RECURSIVE GCD(_, _)
GCD(a, b) == IF b = 0 THEN a ELSE GCD(b, a % b)

\* the float n/d, in lowest terms
Q(n, d) ==
    IF d = 0 THEN <<Sgn(n), 0>>
    ELSE LET g == GCD(Abs(n), Abs(d))
             s == IF d < 0 THEN -1 ELSE 1
         IN  <<(s * n) \div g, (s * d) \div g>>

I(n) == <<n, 1>>

Zero == I(0)

One == I(1)

Inf == <<1, 0>>

NaN == <<0, 0>>

IsNaN(a) == a = NaN

IsFinite(a) == a[2] # 0

Add(a, b) ==
    IF a[2] = 0 /\ b[2] = 0
    THEN (IF a = b THEN a ELSE NaN)
    ELSE LET g == GCD(a[2], b[2])
         IN  Q(a[1] * (b[2] \div g) + b[1] * (a[2] \div g), (a[2] \div g) * b[2])

Neg(a) == <<-a[1], a[2]>>

Sub(a, b) == Add(a, Neg(b))

Mul(a, b) ==
    LET g == GCD(Abs(a[1]), b[2])
        h == GCD(Abs(b[1]), a[2])
    IN  IF g = 0 \/ h = 0 THEN Q(a[1] * b[1], a[2] * b[2])
        ELSE Q((a[1] \div g) * (b[1] \div h), (a[2] \div h) * (b[2] \div g))

Div(a, b) == Mul(a, Q(b[2], b[1]))

\* a < b as floats compare: false when either side is NaN
Lt(a, b) ==
    IF IsNaN(a) \/ IsNaN(b) THEN FALSE
    ELSE IF a[2] = 0 /\ b[2] = 0 THEN a[1] < b[1]
    ELSE IF a[2] = 0 THEN a[1] < 0
    ELSE IF b[2] = 0 THEN b[1] > 0
    ELSE a[1] * b[2] < b[1] * a[2]

Le(a, b) == Lt(a, b) \/ (a = b /\ ~IsNaN(a))

RMax(a, b) == IF Lt(a, b) THEN b ELSE a

\* s or s + 1, whichever is the integer square root of n
isqrtStep(n, s) == IF (s + 1) * (s + 1) <= n THEN s + 1 ELSE s

RECURSIVE ISqrt(_)
ISqrt(n) == IF n < 2 THEN n ELSE isqrtStep(n, 2 * ISqrt(n \div 4))

IsSquare(n) == ISqrt(n) * ISqrt(n) = n

Sqrt(a) ==
    IF IsNaN(a) \/ a[1] < 0 THEN NaN
    ELSE IF a[2] = 0 THEN Inf
    ELSE IF IsSquare(a[1]) /\ IsSquare(a[2]) THEN Q(ISqrt(a[1]), ISqrt(a[2]))
    ELSE Q(ISqrt((a[1] * SqrtGrid * SqrtGrid) \div a[2]), SqrtGrid)

RECURSIVE Pow(_, _)
Pow(a, k) == IF k = 0 THEN One ELSE Mul(a, Pow(a, k - 1))

(* ------------------------------------------------------------------ *)
(* Vectors and matrices                                                *)
(* ------------------------------------------------------------------ *)

V3(x, y, z) == <<I(x), I(y), I(z)>>

Vec0 == V3(0, 0, 0)

VAdd(u, v) == <<Add(u[1], v[1]), Add(u[2], v[2]), Add(u[3], v[3])>>

VSub(u, v) == <<Sub(u[1], v[1]), Sub(u[2], v[2]), Sub(u[3], v[3])>>

VNeg(u) == <<Neg(u[1]), Neg(u[2]), Neg(u[3])>>

\* componentwise product
VMul(u, v) == <<Mul(u[1], v[1]), Mul(u[2], v[2]), Mul(u[3], v[3])>>

Scale(u, k) == <<Mul(u[1], k), Mul(u[2], k), Mul(u[3], k)>>

VDiv(u, k) == <<Div(u[1], k), Div(u[2], k), Div(u[3], k)>>

Dot(u, v) == Add(Add(Mul(u[1], v[1]), Mul(u[2], v[2])), Mul(u[3], v[3]))

Length(u) == Sqrt(Dot(u, u))

Normalize(u) == VDiv(u, Length(u))

VFinite(u) == IsFinite(u[1]) /\ IsFinite(u[2]) /\ IsFinite(u[3])

Dot4(r, v) ==
    Add(Add(Mul(r[1], v[1]), Mul(r[2], v[2])), Add(Mul(r[3], v[3]), Mul(r[4], v[4])))

\* M @ v for a 4x4 matrix (a tuple of rows) and a 4-vector
MatVec(M, v) == <<Dot4(M[1], v), Dot4(M[2], v), Dot4(M[3], v), Dot4(M[4], v)>>

Transpose(M) == [i \in 1..4 |-> [j \in 1..4 |-> M[j][i]]]

Xyz(v) == <<v[1], v[2], v[3]>>

Vec4(v, w) == <<v[1], v[2], v[3], w>>

(* ------------------------------------------------------------------ *)
(* helperclasses.py                                                    *)
(* ------------------------------------------------------------------ *)

Ray(origin, direction) == [origin |-> origin, direction |-> direction]

getRayDistance(ray, point) == Length(VSub(point, ray.origin))

getRayPoint(ray, t) == VAdd(ray.origin, Scale(ray.direction, t))

changeRayFrame(ray, M) ==
    LET d_local == MatVec(M, Vec4(ray.direction, Zero))
        o_local == MatVec(M, Vec4(ray.origin, One))
    IN  Ray(Xyz(o_local), Normalize(Xyz(d_local)))

\* shininess is the exponent (the first component of the stored vector)
Material(id, diffuse, specular, shininess) ==
    [id |-> id, diffuse |-> diffuse, specular |-> specular, shininess |-> shininess]

\* a zero-initialised Material
Material0 == Material(0, Vec0, Vec0, 0)

Light(ltype, id, colour, vector, attenuation) ==
    [ltype |-> ltype, id |-> id, colour |-> colour, vector |-> vector,
     attenuation |-> attenuation]

\* a zero-initialised Light (the padding element of an empty field)
Light0 == Light(0, 0, Vec0, Vec0, Vec0)

Intersection(is_hit, t, normal, position, mat) ==
    [is_hit |-> is_hit, t |-> t, normal |-> normal, position |-> position, mat |-> mat]

\* Intersection(): all fields zero, is_hit = False
Intersection0 == Intersection(FALSE, Zero, Vec0, Vec0, Material0)

changeIntersectFrame(intersect, M, M_inv) ==
    LET new_normal == MatVec(Transpose(M_inv), Vec4(intersect.normal, Zero))
        new_position == MatVec(M, Vec4(intersect.position, One))
    IN  Intersection(intersect.is_hit, intersect.t, Normalize(Xyz(new_normal)),
                     Xyz(new_position), intersect.mat)

(* ------------------------------------------------------------------ *)
(* parser.py: the transform pair of a primitive                        *)
(* ------------------------------------------------------------------ *)

Mat0 == [i \in 1..4 |-> [j \in 1..4 |-> Zero]]

\* M = translate(g_pos) * scale(g_s) under an identity parent, no rotation;
\* M_inv = inverse(M)
load_geometry_transformation_matrix(g_pos, g_s) ==
    LET M == << <<g_s[1], Zero, Zero, g_pos[1]>>,
                <<Zero, g_s[2], Zero, g_pos[2]>>,
                <<Zero, Zero, g_s[3], g_pos[3]>>,
                <<Zero, Zero, Zero, One>> >>
        M_inv == << <<Div(One, g_s[1]), Zero, Zero, Neg(Div(g_pos[1], g_s[1]))>>,
                    <<Zero, Div(One, g_s[2]), Zero, Neg(Div(g_pos[2], g_s[2]))>>,
                    <<Zero, Zero, Div(One, g_s[3]), Neg(Div(g_pos[3], g_s[3]))>>,
                    <<Zero, Zero, Zero, One>> >>
    IN  <<M, M_inv>>

(* ------------------------------------------------------------------ *)
(* geometry.py                                                         *)
(* ------------------------------------------------------------------ *)

Sphere(id, material, radius, M, M_inv) ==
    [id |-> id, material |-> material, radius |-> radius, M |-> M, M_inv |-> M_inv]

\* the zero-initialised padding element of an empty sphere field
Sphere0 == Sphere(0, Material0, Zero, Mat0, Mat0)

\* a, b, c, the discriminant and the two roots, for the ray in the local frame
quadraticRoots(ray_local, r) ==
    LET p == ray_local.origin
        d == ray_local.direction
        a == Dot(d, d)
        b == Mul(I(2), Dot(p, d))
        c == Sub(Dot(p, p), Mul(r, r))
        discriminant == Sub(Mul(b, b), Mul(I(4), Mul(a, c)))
        sqrt_disc == Sqrt(RMax(Zero, discriminant))
    IN  [ray_local |-> ray_local, a |-> a, b |-> b, c |-> c,
         discriminant |-> discriminant,
         t1 |-> Div(Sub(Neg(b), sqrt_disc), Mul(I(2), a)),
         t2 |-> Div(Add(Neg(b), sqrt_disc), Mul(I(2), a))]

\* the quadratic of the ray in the sphere's local frame
sphereQuadratic(sphere, ray) ==
    quadraticRoots(changeRayFrame(ray, sphere.M_inv), sphere.radius)

\* t1_valid / t2_valid
rootValid(t, t_min, t_max, discriminant) ==
    Lt(t_min, t) /\ Lt(t, t_max) /\ Le(Zero, discriminant)

\* a variant that prefers the larger root
sphereRootLarger(q, t_min, t_max) ==
    [is_hit |-> rootValid(q.t1, t_min, t_max, q.discriminant)
                \/ rootValid(q.t2, t_min, t_max, q.discriminant),
     t |-> IF rootValid(q.t2, t_min, t_max, q.discriminant) THEN q.t2 ELSE q.t1,
     ray_local |-> q.ray_local]

\* is_hit, and t: t1 if it is valid, otherwise t2
sphereRoot(q, t_min, t_max) ==
    [is_hit |-> rootValid(q.t1, t_min, t_max, q.discriminant)
                \/ rootValid(q.t2, t_min, t_max, q.discriminant),
     t |-> IF rootValid(q.t1, t_min, t_max, q.discriminant) THEN q.t1 ELSE q.t2,
     ray_local |-> q.ray_local]

\* the fields of hit, from the world position and the local normal
sphereHitAt(sphere, ray, position, normal_local) ==
    Intersection(TRUE, Length(VSub(position, ray.origin)),
                 Normalize(Xyz(MatVec(Transpose(sphere.M_inv), Vec4(normal_local, Zero)))),
                 position, sphere.material)

sphereHitPoint(sphere, ray, point_local) ==
    sphereHitAt(sphere, ray, Xyz(MatVec(sphere.M, Vec4(point_local, One))),
                Normalize(point_local))

\* hit, before the final changeIntersectFrame
sphereHit(sphere, ray, sel) ==
    IF sel.is_hit
    THEN sphereHitPoint(sphere, ray, getRayPoint(sel.ray_local, sel.t))
    ELSE Intersection0

intersectSphere(sphere, ray, t_min, t_max) ==
    changeIntersectFrame(
        sphereHit(sphere, ray, sphereRoot(sphereQuadratic(sphere, ray), t_min, t_max)),
        sphere.M, sphere.M_inv)

\* the body is not implemented: the default Intersection is returned
intersectPlane(plane, ray, t_min, t_max) == Intersection0

\* the body is not implemented: the default Intersection is returned
intersectAABox(aabox, ray, t_min, t_max) == Intersection0

\* the body is not implemented: the default Intersection is returned
intersectMesh(mesh, ray, t_min, t_max) == Intersection0

Plane(id, two_materials, material1, material2, normal, M, M_inv) ==
    [id |-> id, two_materials |-> two_materials, material1 |-> material1,
     material2 |-> material2, normal |-> normal, M |-> M, M_inv |-> M_inv]

Plane0 == Plane(0, FALSE, Material0, Material0, Vec0, Mat0, Mat0)

AABox(id, material, minpos, maxpos, M, M_inv) ==
    [id |-> id, material |-> material, minpos |-> minpos, maxpos |-> maxpos,
     M |-> M, M_inv |-> M_inv]

AABox0 == AABox(0, Material0, Vec0, Vec0, Mat0, Mat0)

Mesh(id, material, faces_ids_start, faces_ids_count, M, M_inv) ==
    [id |-> id, material |-> material, faces_ids_start |-> faces_ids_start,
     faces_ids_count |-> faces_ids_count, M |-> M, M_inv |-> M_inv]

Mesh0 == Mesh(0, Material0, 0, 0, Mat0, Mat0)

(* ------------------------------------------------------------------ *)
(* camera.py                                                           *)
(* ------------------------------------------------------------------ *)

Cross(a, b) ==
    <<Sub(Mul(a[2], b[3]), Mul(a[3], b[2])),
      Sub(Mul(a[3], b[1]), Mul(a[1], b[3])),
      Sub(Mul(a[1], b[2]), Mul(a[2], b[1]))>>

\* Camera.__init__; tan_half stands for tan(radians(fovy) / 2)
Camera(width, height, eye_position, lookat, up, tan_half) ==
    LET w_glm == Normalize(VSub(eye_position, lookat))
        u_glm == Normalize(Cross(up, w_glm))
        v_glm == Cross(w_glm, u_glm)
        height_at_plane == Mul(Mul(I(2), One), tan_half)
        width_at_plane == Mul(height_at_plane, Q(width, height))
    IN  [width |-> width, height |-> height, distance_to_plane |-> One,
         w |-> w_glm, u |-> u_glm, v |-> v_glm,
         top |-> Div(height_at_plane, I(2)),
         bottom |-> Div(Neg(height_at_plane), I(2)),
         right |-> Div(width_at_plane, I(2)),
         left |-> Div(Neg(width_at_plane), I(2)),
         eye_position |-> eye_position]

\* rnd = <<r1, r2>>: the two values ti.random() returns when jitter is set
create_ray(cam, x, y, jit, rnd) ==
    LET u_norm == Add(Q(x, cam.width), IF jit THEN Div(rnd[1], I(cam.width)) ELSE Zero)
        v_norm == Add(Q(y, cam.height), IF jit THEN Div(rnd[2], I(cam.height)) ELSE Zero)
        u_coord == Add(cam.left, Mul(u_norm, Sub(cam.right, cam.left)))
        v_coord == Add(cam.bottom, Mul(v_norm, Sub(cam.top, cam.bottom)))
        direction == VSub(VAdd(Scale(cam.u, u_coord), Scale(cam.v, v_coord)),
                          Scale(cam.w, cam.distance_to_plane))
    IN  Ray(cam.eye_position, Normalize(direction))

(* ------------------------------------------------------------------ *)
(* scene.py: the state of a Scene, of the driver and of the kernel     *)
(* ------------------------------------------------------------------ *)

VARIABLES
    jitter, samples, camera, ambient, lights, nb_lights,
    spheres, nb_spheres, planes, nb_planes, aaboxes, nb_aaboxes, meshes, nb_meshes,
    image,
    AA_samples, show, pc, iteration, running, frames, saved,
    todo, iteration_count,
    passes, sampled, before,
    probe,
    geom_id, meshes_total_nb_verts, meshes_total_nb_faces,
    scene_meshes_verts, scene_meshes_faces, loaded

sceneVars ==
    <<jitter, camera, ambient, lights, nb_lights, spheres, nb_spheres,
      planes, nb_planes, aaboxes, nb_aaboxes, meshes, nb_meshes>>

driverVars == <<AA_samples, samples, show, pc, iteration, running, frames, saved>>

kernelVars == <<image, todo, iteration_count, passes, sampled, before>>

\* the module-level state of parser.py; loaded records every mesh load
loaderVars ==
    <<geom_id, meshes_total_nb_verts, meshes_total_nb_faces,
      scene_meshes_verts, scene_meshes_faces, loaded>>

vars == <<sceneVars, driverVars, kernelVars, probe, loaderVars>>

shadow_epsilon == Q(1, 100)

\* if hit.is_hit: best = hit; t_max = hit.t
keepBest(hit, acc) == IF hit.is_hit THEN [best |-> hit, t_max |-> hit.t] ELSE acc

RECURSIVE scanSpheres(_, _, _, _)
scanSpheres(i, ray, t_min, acc) ==
    IF i >= nb_spheres THEN acc
    ELSE scanSpheres(i + 1, ray, t_min,
                     keepBest(intersectSphere(spheres[i + 1], ray, t_min, acc.t_max), acc))

RECURSIVE scanPlanes(_, _, _, _)
scanPlanes(i, ray, t_min, acc) ==
    IF i >= nb_planes THEN acc
    ELSE scanPlanes(i + 1, ray, t_min,
                    keepBest(intersectPlane(planes[i + 1], ray, t_min, acc.t_max), acc))

RECURSIVE scanAABoxes(_, _, _, _)
scanAABoxes(i, ray, t_min, acc) ==
    IF i >= nb_aaboxes THEN acc
    ELSE scanAABoxes(i + 1, ray, t_min,
                     keepBest(intersectAABox(aaboxes[i + 1], ray, t_min, acc.t_max), acc))

RECURSIVE scanMeshes(_, _, _, _)
scanMeshes(i, ray, t_min, acc) ==
    IF i >= nb_meshes THEN acc
    ELSE scanMeshes(i + 1, ray, t_min,
                    keepBest(intersectMesh(meshes[i + 1], ray, t_min, acc.t_max), acc))

intersect_scene(ray, t_min, t_max) ==
    scanMeshes(0, ray, t_min,
        scanAABoxes(0, ray, t_min,
            scanPlanes(0, ray, t_min,
                scanSpheres(0, ray, t_min,
                            [best |-> Intersection0, t_max |-> t_max])))).best

\* light_dir, attenuation and distance_to_light of a light at a surface point
lightGeometry(light, position) ==
    IF light.ltype = 0
    THEN [light_dir |-> light.vector, attenuation |-> One, distance_to_light |-> Inf]
    ELSE LET light_vector == VSub(light.vector, position)
             distance_to_light == Length(light_vector)
             kq == light.attenuation[1]
             kl == light.attenuation[2]
             kc == light.attenuation[3]
         IN  [light_dir |-> Normalize(light_vector),
              attenuation |->
                  Div(One, Add(Add(kc, Mul(kl, distance_to_light)),
                               Mul(kq, Mul(distance_to_light, distance_to_light)))),
              distance_to_light |-> distance_to_light]

\* what the light adds to sample_colour: diffuse + specular unless in shadow
lightShaded(light, intersect, g, normal, view_dir) ==
    LET diffuse_factor == RMax(Zero, Dot(normal, g.light_dir))
        diffuse == Scale(Scale(VMul(intersect.mat.diffuse, light.colour), diffuse_factor),
                         g.attenuation)
        half_vector == Normalize(VAdd(view_dir, g.light_dir))
        spec_factor == Pow(RMax(Zero, Dot(normal, half_vector)), intersect.mat.shininess)
        specular ==
            IF Lt(Zero, Length(intersect.mat.specular))
            THEN Scale(Scale(VMul(intersect.mat.specular, light.colour), spec_factor),
                       g.attenuation)
            ELSE Vec0
        shadow_ray == Ray(intersect.position, g.light_dir)
    IN  IF Lt(Zero, diffuse_factor)
           /\ ~intersect_scene(shadow_ray, shadow_epsilon, g.distance_to_light).is_hit
        THEN VAdd(diffuse, specular)
        ELSE Vec0

\* one iteration of the loop over the lights in compute_shading
lightTerm(light, intersect, ray) ==
    lightShaded(light, intersect, lightGeometry(light, intersect.position),
                Normalize(intersect.normal), Normalize(VNeg(ray.direction)))

RECURSIVE shadeLights(_, _, _, _)
shadeLights(l, sample_colour, intersect, ray) ==
    IF l >= nb_lights THEN sample_colour
    ELSE shadeLights(l + 1, VAdd(sample_colour, lightTerm(lights[l + 1], intersect, ray)),
                     intersect, ray)

compute_shading(intersect, ray) ==
    shadeLights(0, VAdd(Vec0, VMul(ambient, intersect.mat.diffuse)), intersect, ray)

\* a variant whose background colour is the ambient light
shadeHitAmbient(intersect, ray) ==
    IF intersect.is_hit THEN compute_shading(intersect, ray) ELSE ambient

\* background colour unless the ray hits
shadeHit(intersect, ray) ==
    IF intersect.is_hit THEN compute_shading(intersect, ray) ELSE Vec0

shadeRay(ray) == shadeHit(intersect_scene(ray, Zero, Inf), ray)

\* the colour render computes for pixel (x, y)
sampleColour(x, y, rnd) == shadeRay(create_ray(camera, x, y, jitter, rnd))

\* a variant that forgets the division: the cell becomes the last sample
accumulateLast(img, x, y, sample_colour, count) ==
    VAdd(img[<<x, y>>], VSub(sample_colour, img[<<x, y>>]))

\* a variant that divides by one more than the iteration count
accumulateOffByOne(img, x, y, sample_colour, count) ==
    VAdd(img[<<x, y>>], VDiv(VSub(sample_colour, img[<<x, y>>]), I(count + 1)))

\* a variant that reads the first cell of the row instead of the pixel's own
accumulateNeighbour(img, x, y, sample_colour, count) ==
    VAdd(img[<<x, y>>], VDiv(VSub(sample_colour, img[<<0, y>>]), I(count)))

\* self.image[x,y] += (sample_colour - self.image[x,y]) / iteration_count
accumulate(img, x, y, sample_colour, count) ==
    VAdd(img[<<x, y>>], VDiv(VSub(sample_colour, img[<<x, y>>]), I(count)))

(* ------------------------------------------------------------------ *)
(* The scenes and the command lines the model runs                     *)
(* ------------------------------------------------------------------ *)

\* the largest AA_samples of a scene file
MaxSamples == 3

\* the window is closed before more than this many frames are shown
MaxFrames == 4

\* "resolution" of the scene files: width, height
Resolution == <<2, 1>>

Pixels == (0 .. Resolution[1] - 1) \X (0 .. Resolution[2] - 1)

\* the pairs of values the two calls of ti.random() in create_ray return
JitterDraws == {<<Zero, Zero>>, <<Q(1, 2), Q(1, 2)>>}

Half3 == <<Q(1, 2), Q(1, 2), Q(1, 2)>>

Ones3 == V3(1, 1, 1)

\* a field cannot have length zero: an empty list is stored as one zero element
field(list, zero) == IF Len(list) = 0 THEN <<zero>> ELSE list

\* a sphere as load_geometry builds it
loadSphere(id, material, radius, g_pos, g_s) ==
    LET MM == load_geometry_transformation_matrix(g_pos, g_s)
    IN  Sphere(id, material, radius, MM[1], MM[2])

loadPlane(id, material, g_pos) ==
    LET MM == load_geometry_transformation_matrix(g_pos, Ones3)
    IN  Plane(id, FALSE, material, material, V3(0, 1, 0), MM[1], MM[2])

Grey == Material(0, Half3, Vec0, 0)

Shiny == Material(1, Half3, <<Q(1, 4), Q(1, 4), Q(1, 4)>>, 2)

\* a directional light toward +z and a point light at the eye, power 1
SunLight == Light(0, 0, Ones3, V3(0, 0, 1), Vec0)

EyeLight == Light(1, 0, Ones3, V3(0, 0, 3), V3(0, 0, 1))

\* the contents of the scene files: lights and objects
SceneFiles ==
    { [lights |-> <<>>, spheres |-> <<>>, planes |-> <<>>],
      [lights |-> <<EyeLight>>, spheres |-> <<>>, planes |-> <<>>],
      [lights |-> <<SunLight>>,
       spheres |-> <<loadSphere(0, Grey, One, V3(-2, -1, 1), Ones3)>>,
       planes |-> <<>>],
      [lights |-> <<EyeLight>>,
       spheres |-> <<loadSphere(0, Shiny, One, V3(-2, -1, 1), Ones3),
                     loadSphere(1, Grey, One, V3(0, -1, 1), Ones3)>>,
       planes |-> <<loadPlane(2, Grey, V3(0, -2, 0))>>] }

\* load_scene: the Scene built from a scene file
SceneLoaded(f, jit) ==
    /\ jitter = jit
    /\ camera = Camera(Resolution[1], Resolution[2], V3(0, 0, 3), V3(0, 0, 0),
                       V3(0, 1, 0), Q(1, 2))
    /\ ambient = Half3
    /\ nb_lights = Len(f.lights)
    /\ lights = field(f.lights, Light0)
    /\ nb_spheres = Len(f.spheres)
    /\ spheres = field(f.spheres, Sphere0)
    /\ nb_planes = Len(f.planes)
    /\ planes = field(f.planes, Plane0)
    /\ nb_aaboxes = 0
    /\ aaboxes = <<AABox0>>
    /\ nb_meshes = 0
    /\ meshes = <<Mesh0>>

NoProbe == [op |-> "none"]

\* the globals of parser.py after a scene file without meshes has been loaded
NoMeshLoaded ==
    /\ geom_id = nb_spheres + nb_planes - 1
    /\ meshes_total_nb_verts = 0
    /\ meshes_total_nb_faces = 0
    /\ scene_meshes_verts = <<>>
    /\ scene_meshes_faces = <<>>
    /\ loaded = <<>>

Init ==
    /\ \E f \in SceneFiles, jit \in BOOLEAN : SceneLoaded(f, jit)
    /\ AA_samples \in {-1} \cup (0 .. MaxSamples)
    /\ samples = AA_samples
    /\ show \in BOOLEAN
    /\ pc = "start"
    /\ iteration = 0
    /\ running = FALSE
    /\ frames = 0
    /\ saved = 0
    /\ image = [p \in Pixels |-> Vec0]
    /\ todo = {}
    /\ iteration_count = 0
    /\ passes = <<>>
    /\ sampled = [p \in Pixels |-> <<>>]
    /\ before = [p \in Pixels |-> Vec0]
    /\ probe = NoProbe
    /\ NoMeshLoaded

(* ------------------------------------------------------------------ *)
(* scene.py: the kernel render, one step per pixel                     *)
(* ------------------------------------------------------------------ *)

\* render(count) is launched: every pixel is still to be updated
launch(count) ==
    /\ todo' = Pixels
    /\ iteration_count' = count
    /\ before' = image
    /\ pc' = "render"
    /\ UNCHANGED <<image, passes, sampled>>

\* one iteration of the parallel loop over the pixels
RenderPixel(p) ==
    /\ pc = "render"
    /\ p \in todo
    /\ \E rnd \in (IF jitter THEN JitterDraws ELSE {<<Zero, Zero>>}) :
          \E sample_colour \in {sampleColour(p[1], p[2], rnd)} :
              /\ image' = [image EXCEPT
                             ![p] = accumulate(image, p[1], p[2], sample_colour,
                                               iteration_count)]
              /\ sampled' = [sampled EXCEPT ![p] = Append(@, sample_colour)]
    /\ todo' = todo \ {p}
    /\ UNCHANGED <<loaderVars, sceneVars, driverVars, iteration_count, passes, before, probe>>

(* ------------------------------------------------------------------ *)
(* main.py                                                             *)
(* ------------------------------------------------------------------ *)

\* if args.show: the window is created, iteration = 1
StartShow ==
    /\ pc = "start" /\ show
    /\ iteration' = 1
    /\ running' = TRUE
    /\ pc' = "while"
    /\ UNCHANGED <<loaderVars, sceneVars, AA_samples, kernelVars, samples, show, frames, saved, probe>>

\* a variant without the special case of a negative sample count
StartBatchKeep ==
    /\ pc = "start" /\ ~show
    /\ samples' = samples
    /\ iteration' = 1
    /\ pc' = "for"
    /\ UNCHANGED <<loaderVars, sceneVars, AA_samples, kernelVars, show, running, frames, saved, probe>>

\* else: a negative sample count becomes 1, the for loop starts at 1
StartBatch ==
    /\ pc = "start" /\ ~show
    /\ samples' = IF samples < 0 THEN 1 ELSE samples
    /\ iteration' = 1
    /\ pc' = "for"
    /\ UNCHANGED <<loaderVars, sceneVars, AA_samples, kernelVars, show, running, frames, saved, probe>>

\* while gui.running
WhileTest ==
    /\ pc = "while"
    /\ running => frames < MaxFrames
    /\ pc' = IF running THEN "body" ELSE "save"
    /\ UNCHANGED <<loaderVars, sceneVars, AA_samples, kernelVars, samples, show, iteration, running, frames,
                   saved, probe>>

\* a variant that renders on every frame once the sample count is positive
FrameBodyAlways ==
    /\ pc = "body"
    /\ IF samples > 0
       THEN launch(iteration)
       ELSE pc' = "display" /\ UNCHANGED kernelVars
    /\ UNCHANGED <<loaderVars, sceneVars, AA_samples, samples, show, iteration, running, frames, saved, probe>>

\* if iteration <= full_scene.samples and full_scene.samples > 0: render(iteration)
FrameBody ==
    /\ pc = "body"
    /\ IF iteration <= samples /\ samples > 0
       THEN launch(iteration)
       ELSE pc' = "display" /\ UNCHANGED kernelVars
    /\ UNCHANGED <<loaderVars, sceneVars, AA_samples, samples, show, iteration, running, frames, saved, probe>>

\* for iteration in range(1, full_scene.samples + 1): render(iteration)
ForTest ==
    /\ pc = "for"
    /\ IF iteration <= samples
       THEN launch(iteration)
       ELSE pc' = "save" /\ UNCHANGED kernelVars
    /\ UNCHANGED <<loaderVars, sceneVars, AA_samples, samples, show, iteration, running, frames, saved, probe>>

\* the kernel has updated every pixel: render returns to its caller
RenderReturn ==
    /\ pc = "render"
    /\ todo = {}
    /\ passes' = Append(passes, iteration_count)
    /\ iteration' = iteration + 1
    /\ pc' = IF show THEN "display" ELSE "for"
    /\ UNCHANGED <<loaderVars, sceneVars, AA_samples, image, todo, iteration_count, sampled, before,
                   samples, show, running, frames, saved, probe>>

\* gui.set_image(full_scene.image); gui.show()
Display ==
    /\ pc = "display"
    /\ frames' = frames + 1
    /\ pc' = "while"
    /\ UNCHANGED <<loaderVars, sceneVars, AA_samples, kernelVars, samples, show, iteration, running, saved, probe>>

\* the user closes the window
CloseWindow ==
    /\ show /\ running
    /\ pc \in {"while", "body", "render", "display"}
    /\ running' = FALSE
    /\ UNCHANGED <<loaderVars, sceneVars, AA_samples, kernelVars, samples, show, pc, iteration, frames, saved,
                   probe>>

\* save_image(full_scene.image, ...)
Save ==
    /\ pc = "save"
    /\ saved' = saved + 1
    /\ pc' = "done"
    /\ UNCHANGED <<loaderVars, sceneVars, AA_samples, kernelVars, samples, show, iteration, running, frames,
                   probe>>

Next ==
    \/ StartShow
    \/ StartBatch
    \/ WhileTest
    \/ FrameBody
    \/ ForTest
    \/ \E p \in Pixels : RenderPixel(p)
    \/ RenderReturn
    \/ Display
    \/ CloseWindow
    \/ Save

Spec == Init /\ [][Next]_vars

(* ------------------------------------------------------------------ *)
(* The intersection and shading functions applied to chosen inputs     *)
(* ------------------------------------------------------------------ *)

\* Each behaviour loads a scene and applies one function to one input; probe
\* records the input and the value returned.

\* spheres on the x axis: unit, scaled by 2, radius 2 scaled by 1/2, unit
SphereA == loadSphere(0, Grey, One, V3(0, 0, 0), Ones3)

SphereB == loadSphere(1, Shiny, One, V3(3, 0, 0), V3(2, 2, 2))

SphereC == loadSphere(2, Grey, I(2), V3(2, 0, 0), Half3)

SphereD == loadSphere(3, Shiny, One, V3(4, 0, 0), Ones3)

\* a point light on the x axis, constant attenuation
LampLight == Light(1, 0, Ones3, V3(6, 0, 0), V3(0, 0, 1))

\* the plane y = -2, normal +y
FloorPlane == loadPlane(4, Grey, V3(0, -2, 0))

\* a light of kind 2, handed to the Scene constructor directly (load_scene
\* skips the lights whose type it does not know)
OddLight == Light(2, 0, Ones3, V3(6, 0, 0), V3(0, 0, 1))

GeomScenes ==
    { [lights |-> <<LampLight>>, spheres |-> ss, planes |-> <<>>] :
        ss \in { <<>>, <<SphereA>>, <<SphereB>>, <<SphereC>>, <<SphereD>>,
                 <<SphereA, SphereB>>, <<SphereB, SphereA>>,
                 <<SphereA, SphereD>>, <<SphereD, SphereA>> } }
    \cup { [lights |-> <<LampLight>>, spheres |-> <<SphereD>>, planes |-> <<FloorPlane>>] }
    \cup { [lights |-> <<OddLight>>, spheres |-> <<>>, planes |-> <<>>] }

\* rays along +x: from outside the spheres, from inside SphereA, missing all
GeomRays ==
    { Ray(V3(-4, 0, 0), V3(1, 0, 0)),
      Ray(V3(0, 0, 0), V3(1, 0, 0)),
      Ray(V3(-4, 3, 0), V3(1, 0, 0)) }

\* rays from the origin: straight down onto the floor, and parallel to it
PlaneRays ==
    { Ray(V3(0, 0, 0), V3(0, -1, 0)),
      Ray(V3(0, 0, 0), V3(1, 0, 0)) }

\* a ray whose direction is the zero vector
DegenerateRays == { Ray(V3(-4, 0, 0), Vec0) }

\* the intervals (t_min, t_max)
GeomIntervals ==
    { <<Zero, Inf>>, <<Zero, I(4)>>, <<shadow_epsilon, I(8)>>, <<I(4), Inf>> }

\* a surface point at (-4, 0, 0) facing +x, seen from (-3, 0, 0)
SurfaceHits ==
    { Intersection(TRUE, One, V3(1, 0, 0), V3(-4, 0, 0), m) : m \in {Grey, Shiny} }

ViewRays == { Ray(V3(-3, 0, 0), V3(-1, 0, 0)) }

GeomInit ==
    /\ \E f \in GeomScenes : SceneLoaded(f, FALSE)
    /\ AA_samples = 1
    /\ samples = 1
    /\ show = FALSE
    /\ pc = "kernel"
    /\ iteration = 0
    /\ running = FALSE
    /\ frames = 0
    /\ saved = 0
    /\ image = [p \in Pixels |-> Vec0]
    /\ todo = {}
    /\ iteration_count = 0
    /\ passes = <<>>
    /\ sampled = [p \in Pixels |-> <<>>]
    /\ before = [p \in Pixels |-> Vec0]
    /\ probe = NoProbe
    /\ NoMeshLoaded

\* intersectSphere is applied to a sphere of the scene
ProbeSphere ==
    /\ probe = NoProbe
    /\ \E i \in 1 .. nb_spheres, ray \in GeomRays \cup DegenerateRays,
          iv \in GeomIntervals :
          probe' = [op |-> "intersectSphere", sphere |-> spheres[i], ray |-> ray,
                    t_min |-> iv[1], t_max |-> iv[2],
                    hit |-> intersectSphere(spheres[i], ray, iv[1], iv[2])]
    /\ UNCHANGED <<loaderVars, sceneVars, driverVars, kernelVars>>

\* intersect_scene is applied to a ray
ProbeScene ==
    /\ probe = NoProbe
    /\ \E ray \in GeomRays \cup PlaneRays, iv \in GeomIntervals :
          probe' = [op |-> "intersect_scene", ray |-> ray,
                    t_min |-> iv[1], t_max |-> iv[2],
                    hit |-> intersect_scene(ray, iv[1], iv[2])]
    /\ UNCHANGED <<loaderVars, sceneVars, driverVars, kernelVars>>

\* compute_shading is applied to an intersection
ProbeShading ==
    /\ probe = NoProbe
    /\ \E intersect \in SurfaceHits, ray \in ViewRays :
          probe' = [op |-> "compute_shading", intersect |-> intersect, ray |-> ray,
                    colour |-> compute_shading(intersect, ray)]
    /\ UNCHANGED <<loaderVars, sceneVars, driverVars, kernelVars>>

\* intersectPlane is applied to a plane of the scene
ProbePlane ==
    /\ probe = NoProbe
    /\ \E i \in 1 .. nb_planes, ray \in PlaneRays, iv \in GeomIntervals :
          probe' = [op |-> "intersectPlane", plane |-> planes[i], ray |-> ray,
                    t_min |-> iv[1], t_max |-> iv[2],
                    hit |-> intersectPlane(planes[i], ray, iv[1], iv[2])]
    /\ UNCHANGED <<loaderVars, sceneVars, driverVars, kernelVars>>

\* create_ray is applied to a pixel
ProbeRay ==
    /\ probe = NoProbe
    /\ \E p \in Pixels, jit \in BOOLEAN, rnd \in JitterDraws :
          probe' = [op |-> "create_ray", x |-> p[1], y |-> p[2], jitter |-> jit,
                    rnd |-> rnd, ray |-> create_ray(camera, p[1], p[2], jit, rnd)]
    /\ UNCHANGED <<loaderVars, sceneVars, driverVars, kernelVars>>

NextGeom ==
    \/ ProbeSphere
    \/ ProbeScene
    \/ ProbeShading
    \/ ProbeRay
    \/ ProbePlane

SpecGeom == GeomInit /\ [][NextGeom]_vars

(* ------------------------------------------------------------------ *)
(* parser.py: the mesh pools                                           *)
(* ------------------------------------------------------------------ *)

\* no more than this many meshes are loaded in a run
MaxMeshes == 3

\* what trimesh.load_mesh returns for the mesh files: a triangle, a quad of
\* two triangles, a tetrahedron; the faces index the file's own vertices from 0
MeshFiles ==
    { [verts |-> <<V3(0, 0, 0), V3(1, 0, 0), V3(0, 1, 0)>>,
       faces |-> << <<0, 1, 2>> >>],
      [verts |-> <<V3(0, 0, 1), V3(1, 0, 1), V3(1, 1, 1), V3(0, 1, 1)>>,
       faces |-> << <<0, 1, 2>>, <<0, 2, 3>> >>],
      [verts |-> <<V3(0, 0, 2), V3(1, 0, 2), V3(0, 1, 2), V3(0, 0, 3)>>,
       faces |-> << <<0, 1, 2>>, <<0, 1, 3>>, <<0, 2, 3>>, <<1, 2, 3>> >>] }

\* np.resize(a, (n, 3)): the rows of a repeated up to n rows, zeros when a is empty
npResize(a, n, zero) ==
    [i \in 1 .. n |-> IF Len(a) = 0 THEN zero ELSE a[((i - 1) % Len(a)) + 1]]

\* for i in range(len(rows)): pool[base + i] = rows[i]
writeRows(pool, base, rows) ==
    [i \in 1 .. Len(pool) |->
        IF i > base /\ i <= base + Len(rows) THEN rows[i - base] ELSE pool[i]]

\* a variant that stores the face as it is in the file
offsetFaceNone(face, base) == face

\* (faces[i, 0] + meshes_total_nb_verts, faces[i, 1] + ..., faces[i, 2] + ...)
offsetFace(face, base) == <<face[1] + base, face[2] + base, face[3] + base>>

offsetFaces(faces, base) == [i \in 1 .. Len(faces) |-> offsetFace(faces[i], base)]

\* the Mesh load_geometry returns for a file, given the globals before the load
meshLoaded(file, id, total_faces) ==
    Mesh(id, Grey, total_faces, Len(file.faces),
         load_geometry_transformation_matrix(Vec0, Ones3)[1],
         load_geometry_transformation_matrix(Vec0, Ones3)[2])

\* the loader starts on a scene file without objects
LoadInit ==
    /\ SceneLoaded([lights |-> <<>>, spheres |-> <<>>, planes |-> <<>>], FALSE)
    /\ AA_samples = 1
    /\ samples = 1
    /\ show = FALSE
    /\ pc = "load"
    /\ iteration = 0
    /\ running = FALSE
    /\ frames = 0
    /\ saved = 0
    /\ image = [p \in Pixels |-> Vec0]
    /\ todo = {}
    /\ iteration_count = 0
    /\ passes = <<>>
    /\ sampled = [p \in Pixels |-> <<>>]
    /\ before = [p \in Pixels |-> Vec0]
    /\ probe = NoProbe
    /\ NoMeshLoaded

\* load_geometry for an object of type "mesh", and its append to the meshes
LoadMesh(file) ==
    /\ pc = "load"
    /\ Len(loaded) < MaxMeshes
    /\ geom_id' = geom_id + 1
    /\ scene_meshes_verts' =
           writeRows(npResize(scene_meshes_verts,
                              meshes_total_nb_verts + Len(file.verts), Vec0),
                     meshes_total_nb_verts, file.verts)
    /\ scene_meshes_faces' =
           writeRows(npResize(scene_meshes_faces,
                              meshes_total_nb_faces + Len(file.faces), <<0, 0, 0>>),
                     meshes_total_nb_faces,
                     offsetFaces(file.faces, meshes_total_nb_verts))
    /\ meshes_total_nb_verts' = meshes_total_nb_verts + Len(file.verts)
    /\ meshes_total_nb_faces' = meshes_total_nb_faces + Len(file.faces)
    /\ meshes' = IF nb_meshes = 0
                 THEN <<meshLoaded(file, geom_id + 1, meshes_total_nb_faces)>>
                 ELSE Append(meshes, meshLoaded(file, geom_id + 1, meshes_total_nb_faces))
    /\ nb_meshes' = nb_meshes + 1
    /\ loaded' = Append(loaded,
                        [mesh |-> meshLoaded(file, geom_id + 1, meshes_total_nb_faces),
                         file |-> file,
                         vert_start |-> meshes_total_nb_verts])
    /\ UNCHANGED <<jitter, camera, ambient, lights, nb_lights, spheres, nb_spheres,
                   planes, nb_planes, aaboxes, nb_aaboxes,
                   driverVars, kernelVars, probe>>

\* main.py goes on to the next scene file: load_scene starts with empty object
\* lists, the globals of parser.py keep their values
NextFile ==
    /\ pc = "load"
    /\ nb_meshes > 0
    /\ meshes' = <<Mesh0>>
    /\ nb_meshes' = 0
    /\ UNCHANGED <<jitter, camera, ambient, lights, nb_lights, spheres, nb_spheres,
                   planes, nb_planes, aaboxes, nb_aaboxes,
                   driverVars, kernelVars, probe, loaderVars>>

NextLoad ==
    \/ \E file \in MeshFiles : LoadMesh(file)
    \/ NextFile

SpecLoad == LoadInit /\ [][NextLoad]_vars

(* ------------------------------------------------------------------ *)
(* Properties of the driver and of the accumulation                    *)
(* ------------------------------------------------------------------ *)

RECURSIVE VSum(_)
VSum(seq) == IF Len(seq) = 0 THEN Vec0 ELSE VAdd(seq[1], VSum(Tail(seq)))

\* the arithmetic mean of a sequence of colours (zero for no colour)
MeanOf(seq) == IF Len(seq) = 0 THEN Vec0 ELSE VDiv(VSum(seq), I(Len(seq)))

\* <<1, 2, ..., Len(seq)>>
Counting(seq) == seq = [i \in 1 .. Len(seq) |-> i]

EmptyScene == nb_spheres = 0 /\ nb_planes = 0 /\ nb_aaboxes = 0 /\ nb_meshes = 0

\* C1: running mean. With render called with iteration_count = 1, 2, ..., k
\* on a zero accumulator, every pixel holds the arithmetic mean of the sample
\* colours computed for it so far, and after each pass every pixel has one
\* sample per pass.
C1_RunningMean ==
    Counting(passes) =>
        \A p \in Pixels :
            /\ image[p] = MeanOf(sampled[p])
            /\ pc # "render" => Len(sampled[p]) = Len(passes)

\* three passes over a jittered scene whose samples differ from pass to pass
C1_Witness ==
    /\ pc = "done" /\ jitter /\ passes = <<1, 2, 3>>
    /\ \E p \in Pixels : sampled[p][1] # sampled[p][2] /\ sampled[p][2] # sampled[p][3]

\* C2 (as claimed): in --show mode with a negative sample count every displayed
\* frame was preceded by a render pass of its own, so the passes issued are
\* never fewer than the frames shown, and they count 1, 2, ...
C2_RenderPerFrame ==
    (show /\ AA_samples < 0) => (Len(passes) >= frames /\ Counting(passes))

\* C3: without --show the passes issued are 1, 2, ..., never more than the
\* sample count (1 for a negative AA_samples), and the image is saved once,
\* when all of them have completed.
C3_BatchPasses ==
    ~show =>
        LET n == IF AA_samples < 0 THEN 1 ELSE AA_samples
        IN  /\ Counting(passes)
            /\ Len(passes) <= n
            /\ saved <= 1
            /\ saved = 1 => (Len(passes) = n /\ todo = {} /\ pc = "done")
            /\ pc = "done" => saved = 1

\* the single pass of a negative AA_samples, saved
C3_Witness ==
    ~show /\ AA_samples < 0 /\ saved = 1 /\ passes = <<1>> /\ nb_spheres > 0

\* every ray the camera creates for a pixel
CameraRays ==
    { create_ray(camera, p[1], p[2], jit, rnd) :
        p \in Pixels, jit \in BOOLEAN, rnd \in JitterDraws }

\* C7: with all primitive counts zero (the fields still hold one padding
\* element) no ray hits and every accumulator pixel stays the zero vector,
\* whatever the lights.
C7_EmptyScene ==
    EmptyScene =>
        /\ \A p \in Pixels : image[p] = Vec0
        /\ \A ray \in CameraRays : ~intersect_scene(ray, Zero, Inf).is_hit

\* an empty scene with a light, after the last of its passes
C7_Witness ==
    /\ EmptyScene /\ Len(spheres) = 1 /\ nb_lights = 1
    /\ pc = "done" /\ Len(passes) = MaxSamples

\* C8: within a pass a pixel still to be updated holds the value it had when
\* the pass began, and an updated pixel holds that value moved toward its own
\* sample: the state at the end of the pass does not depend on the order of
\* the updates. No pass begins while pixels of the previous one are pending.
C8_PixelsIndependent ==
    /\ pc # "render" => todo = {}
    /\ iteration_count > 0 =>
        \A p \in Pixels :
            image[p] =
                IF p \in todo THEN before[p]
                ELSE VAdd(before[p],
                          VDiv(VSub(sampled[p][Len(sampled[p])], before[p]),
                               I(iteration_count)))

\* a later pass in which one pixel has been updated and another has not
C8_Witness ==
    /\ pc = "render" /\ iteration_count >= 2
    /\ \E p \in todo, q \in Pixels \ todo : image[q] # before[q] /\ image[p] # Vec0

\* C9: with jitter disabled a pixel that has been sampled holds the colour of
\* its single deterministic sample, after any number of passes.
C9_Deterministic ==
    ~jitter =>
        \A p \in Pixels :
            Len(sampled[p]) >= 1 => image[p] = sampleColour(p[1], p[2], <<Zero, Zero>>)

\* three passes without jitter over a scene that is not black
C9_Witness ==
    /\ ~jitter /\ pc = "done" /\ passes = <<1, 2, 3>>
    /\ \E p \in Pixels : image[p] # Vec0

(* ------------------------------------------------------------------ *)
(* Properties of the intersection and shading functions                *)
(* ------------------------------------------------------------------ *)

\* t strictly inside (t_min, t_max)
Inside(t, t_min, t_max) == Lt(t_min, t) /\ Lt(t, t_max)

\* C4 (as claimed): a hit intersectSphere returns has its reported t strictly
\* inside the interval it was given, whatever the transform of the sphere.
C4_HitInsideInterval ==
    (probe.op = "intersectSphere" /\ probe.hit.is_hit) =>
        Inside(probe.hit.t, probe.t_min, probe.t_max)

\* C5 (as claimed): the hit intersect_scene returns has the smallest reported
\* t among the hits of the spheres of the scene inside the interval, whatever
\* the order of the spheres and their transforms.
C5_ClosestHit ==
    probe.op = "intersect_scene" =>
        \A i \in 1 .. nb_spheres :
            intersectSphere(spheres[i], probe.ray, probe.t_min, probe.t_max).is_hit =>
                /\ probe.hit.is_hit
                /\ Le(probe.hit.t,
                      intersectSphere(spheres[i], probe.ray, probe.t_min, probe.t_max).t)

\* centre and radius of a uniformly scaled sphere in world space
worldCentre(sphere) == Xyz(MatVec(sphere.M, Vec4(Vec0, One)))

worldRadius(sphere) == Mul(sphere.radius, sphere.M[1][1])

\* the distances from origin along the unit vector dir at which the sphere's
\* surface is crossed (the empty set when it is missed)
worldCrossings(sphere, origin, dir) ==
    LET oc == VSub(origin, worldCentre(sphere))
        b == Mul(I(2), Dot(oc, dir))
        c == Sub(Dot(oc, oc), Mul(worldRadius(sphere), worldRadius(sphere)))
        disc == Sub(Mul(b, b), Mul(I(4), c))
    IN  IF Lt(disc, Zero) THEN {}
        ELSE { Div(Sub(Neg(b), Sqrt(disc)), I(2)), Div(Add(Neg(b), Sqrt(disc)), I(2)) }

\* some sphere of the scene lies between the point and the point light, farther
\* than shadow_epsilon and nearer than the light
Occluded(light, position) ==
    \E i \in 1 .. nb_spheres :
        \E t \in worldCrossings(spheres[i], position,
                                Normalize(VSub(light.vector, position))) :
            Inside(t, shadow_epsilon, Length(VSub(light.vector, position)))

\* C6 (as claimed): when every light is a point light with an occluder between
\* it and the surface point, compute_shading returns the ambient term
\* ambient * diffuse alone.
C6_ShadowedIsAmbient ==
    (/\ probe.op = "compute_shading"
     /\ \A l \in 1 .. nb_lights :
            lights[l].ltype = 1 /\ Occluded(lights[l], probe.intersect.position)) =>
        probe.colour = VMul(ambient, probe.intersect.mat.diffuse)

\* the reported t of the sphere's hit at the root of the local quadratic
rootDistance(sphere, ray, q, root) ==
    getRayDistance(ray, Xyz(MatVec(sphere.M, Vec4(getRayPoint(q.ray_local, root), One))))

\* C10: intersectSphere reports no hit when the discriminant is negative;
\* otherwise the hit is at the smaller root of the quadratic when that root is
\* strictly inside (t_min, t_max), else at the larger root when that one is,
\* and there is no hit when neither root is inside.
C10_RootSelection ==
    probe.op = "intersectSphere" =>
        \E q \in {sphereQuadratic(probe.sphere, probe.ray)} :
            IF Lt(q.discriminant, Zero) THEN ~probe.hit.is_hit
            ELSE IF Inside(q.t1, probe.t_min, probe.t_max)
            THEN /\ probe.hit.is_hit
                 /\ probe.hit.t = rootDistance(probe.sphere, probe.ray, q, q.t1)
            ELSE IF Inside(q.t2, probe.t_min, probe.t_max)
            THEN /\ probe.hit.is_hit
                 /\ probe.hit.t = rootDistance(probe.sphere, probe.ray, q, q.t2)
            ELSE ~probe.hit.is_hit

\* a ray from inside a sphere: the smaller root is outside the interval and
\* the hit is at the larger root, which differs from it
C10_Witness ==
    /\ probe.op = "intersectSphere" /\ probe.hit.is_hit
    /\ \E q \in {sphereQuadratic(probe.sphere, probe.ray)} :
          /\ Lt(Zero, q.discriminant)
          /\ ~Inside(q.t1, probe.t_min, probe.t_max)
          /\ Inside(q.t2, probe.t_min, probe.t_max)

(* ------------------------------------------------------------------ *)
(* Properties of the camera                                            *)
(* ------------------------------------------------------------------ *)

\* the vector from the eye to the point of the image plane with normalized
\* coordinates (u_norm, v_norm)
towardPlanePoint(cam, u_norm, v_norm) ==
    VSub(VAdd(Scale(cam.u, Add(cam.left, Mul(u_norm, Sub(cam.right, cam.left)))),
              Scale(cam.v, Add(cam.bottom, Mul(v_norm, Sub(cam.top, cam.bottom))))),
         Scale(cam.w, cam.distance_to_plane))

\* the ray starts at the eye and points toward the vector v
PointsToward(ray, cam, v) ==
    /\ ray.origin = cam.eye_position
    /\ Cross(ray.direction, v) = Vec0
    /\ Lt(Zero, Dot(ray.direction, v))

\* C11 (as claimed): without jitter create_ray does not depend on the random
\* draws, and its ray passes through the centre of the pixel, the point
\* ((x + 1/2)/width, (y + 1/2)/height) of the image plane.
C11_ThroughPixelCentre ==
    (probe.op = "create_ray" /\ ~probe.jitter) =>
        /\ \A rnd \in JitterDraws :
               create_ray(camera, probe.x, probe.y, FALSE, rnd) = probe.ray
        /\ PointsToward(probe.ray, camera,
                        towardPlanePoint(camera,
                                         Q(2 * probe.x + 1, 2 * camera.width),
                                         Q(2 * probe.y + 1, 2 * camera.height)))

(* ------------------------------------------------------------------ *)
(* Properties of the plane intersector                                 *)
(* ------------------------------------------------------------------ *)

\* the ray in the plane's local frame, where the plane goes through the origin
planeLocal(plane, ray) == changeRayFrame(ray, plane.M_inv)

\* t = -dot(normal, p) / dot(normal, d) for the local ray
planeSolve(plane, ray_local) ==
    Div(Neg(Dot(plane.normal, ray_local.origin)), Dot(plane.normal, ray_local.direction))

\* the ray is not parallel to the plane and the solved t is strictly inside
\* the interval
CrossesPlane(plane, ray, t_min, t_max) ==
    /\ Dot(plane.normal, planeLocal(plane, ray).direction) # Zero
    /\ Inside(planeSolve(plane, planeLocal(plane, ray)), t_min, t_max)

\* C12 (as claimed): for a ray that is not parallel to the plane and whose
\* solved t = -dot(normal, p) / dot(normal, d) is strictly inside
\* (t_min, t_max), intersectPlane returns a hit at that t, and intersect_scene
\* returns a hit for a ray that crosses a plane of the scene.
C12_PlaneHit ==
    /\ (probe.op = "intersectPlane"
        /\ CrossesPlane(probe.plane, probe.ray, probe.t_min, probe.t_max)) =>
           /\ probe.hit.is_hit
           /\ probe.hit.t = planeSolve(probe.plane, planeLocal(probe.plane, probe.ray))
    /\ probe.op = "intersect_scene" =>
           \A i \in 1 .. nb_planes :
               CrossesPlane(planes[i], probe.ray, probe.t_min, probe.t_max) =>
                   probe.hit.is_hit

(* ------------------------------------------------------------------ *)
(* Properties of the lights                                            *)
(* ------------------------------------------------------------------ *)

\* C13 (as claimed): a light whose kind is neither 0 (directional) nor 1
\* (point) is never used by compute_shading: no Scene holding one is shaded,
\* or at least such a light adds nothing to the colour.
C13_UnknownLightUnused ==
    probe.op = "compute_shading" =>
        \A l \in 1 .. nb_lights :
            lights[l].ltype \notin {0, 1} =>
                lightTerm(lights[l], probe.intersect, probe.ray) = Vec0

(* ------------------------------------------------------------------ *)
(* Properties of degenerate solves                                     *)
(* ------------------------------------------------------------------ *)

\* the direction of the ray is the zero vector in the sphere's local frame:
\* dot(d, d) = 0 before any normalisation
DegenerateSolve(sphere, ray) ==
    Xyz(MatVec(sphere.M_inv, Vec4(ray.direction, Zero))) = Vec0

\* C14 (as claimed): a degenerate solve is guarded: intersectSphere reports
\* no hit and divides nothing by zero, so the coefficient a and the roots it
\* computes are finite numbers, neither infinite nor NaN.
C14_DegenerateGuarded ==
    (probe.op = "intersectSphere" /\ DegenerateSolve(probe.sphere, probe.ray)) =>
        /\ ~probe.hit.is_hit
        /\ \E q \in {sphereQuadratic(probe.sphere, probe.ray)} :
              IsFinite(q.a) /\ IsFinite(q.t1) /\ IsFinite(q.t2)

(* ------------------------------------------------------------------ *)
(* Properties of the reported hit                                      *)
(* ------------------------------------------------------------------ *)

\* C15 (as claimed): the position of a hit intersectSphere returns lies on the
\* world ray at the reported distance: position = origin + t * direction.
C15_PositionOnRay ==
    (probe.op = "intersectSphere" /\ probe.hit.is_hit) =>
        probe.hit.position = getRayPoint(probe.ray, probe.hit.t)

(* ------------------------------------------------------------------ *)
(* Properties of the mesh pools                                        *)
(* ------------------------------------------------------------------ *)

\* the face range of a mesh, as indices into the face pool from 0
faceRange(mesh) ==
    mesh.faces_ids_start .. (mesh.faces_ids_start + mesh.faces_ids_count - 1)

\* the indices of the vertices a load appended to the vertex pool
ownVerts(load) == load.vert_start .. (load.vert_start + Len(load.file.verts) - 1)

\* C16: after any sequence of mesh loads each mesh's face range has the length
\* of its file's face list, lies inside the face pool and is disjoint from the
\* range of every other mesh; the faces in it are the file's faces in order,
\* each index moved by the vertex count before the load, so that they refer to
\* the vertices appended for that mesh only, which are the file's vertices. The
\* meshes of the scene being loaded are among the meshes loaded.
C16_MeshRanges ==
    /\ \A k \in 1 .. Len(loaded) :
          /\ loaded[k].mesh.faces_ids_count = Len(loaded[k].file.faces)
          /\ faceRange(loaded[k].mesh) \subseteq 0 .. (Len(scene_meshes_faces) - 1)
          /\ ownVerts(loaded[k]) \subseteq 0 .. (Len(scene_meshes_verts) - 1)
          /\ \A j \in 1 .. Len(loaded) :
                 j # k => faceRange(loaded[j].mesh) \cap faceRange(loaded[k].mesh) = {}
          /\ \A i \in 1 .. Len(loaded[k].file.faces) :
                 \A c \in 1 .. 3 :
                     /\ scene_meshes_faces[loaded[k].mesh.faces_ids_start + i][c]
                            = loaded[k].file.faces[i][c] + loaded[k].vert_start
                     /\ scene_meshes_faces[loaded[k].mesh.faces_ids_start + i][c]
                            \in ownVerts(loaded[k])
          /\ \A i \in 1 .. Len(loaded[k].file.verts) :
                 scene_meshes_verts[loaded[k].vert_start + i] = loaded[k].file.verts[i]
    /\ \A m \in 1 .. nb_meshes : \E k \in 1 .. Len(loaded) : meshes[m] = loaded[k].mesh
    /\ meshes_total_nb_faces = Len(scene_meshes_faces)
    /\ meshes_total_nb_verts = Len(scene_meshes_verts)

\* three meshes of different files loaded, the last after a change of scene file
C16_Witness ==
    /\ Len(loaded) = 3 /\ nb_meshes = 1
    /\ loaded[1].file # loaded[2].file /\ loaded[2].file # loaded[3].file
    /\ loaded[3].mesh.faces_ids_start > 0 /\ loaded[3].vert_start > 0

(* ------------------------------------------------------------------ *)
(* Properties of the interactive driver                                *)
(* ------------------------------------------------------------------ *)

Min(a, b) == IF a < b THEN a ELSE b

====
